---- MODULE Spec2Model ----
(***************************************************************************)
(* Task manager dashboard: the TaskList controller (src/Components/        *)
(* TaskList.js), the transport client (src/api/tasksApi.js), the Stats     *)
(* component, and the JSON record store they talk to.                      *)
(*                                                                         *)
(* Every async handler is split at its await: the part that runs up to the *)
(* transport call is one action, the continuation that runs when the       *)
(* promise settles is another.  Requests and responses travel through two  *)
(* bags, so the store may serve, and the client may receive, concurrent    *)
(* calls in any order.                                                     *)
(***************************************************************************)
EXTENDS Integers, Sequences, FiniteSets, Bags, TLC

\* ------------------------------------------------------------------ bounds
\* records db.json holds when the page loads (Spec)
MaxInit == 1
\* transport calls the user triggers after the mount-time refresh (Spec)
MaxCalls == 2
\* records db.json holds when the Stats component loads (SpecStats)
MaxStatsTasks == 8
\* length of the tasks sequence the derived view is computed from (SpecView)
MaxViewTasks == 2

\* ------------------------------------------------------------- vocabulary
NULL == "null"

Statuses == {"pending", "completed"}

Priorities == {"low", "high"}

\* A string is the sequence of its characters.
EmptyStr == << >>

DefaultTitle == <<"t">>

FetchFailed == "Failed to fetch tasks. Please try again."

CreateFailed == "Failed to create task. Please try again."

UpdateFailed == "Failed to update task. Please try again."

DeleteFailed == "Failed to delete task. Please try again."

StatsFailed == "Unable to load statistics. Please try again later."

\* An id no record ever has (the store numbers its records from 1).
AbsentId == 0

Task(id, title, description, status, priority, createdAt) ==
    [id |-> id, title |-> title, description |-> description,
     status |-> status, priority |-> priority, createdAt |-> createdAt]

Range(s) == {s[i] : i \in DOMAIN s}

TaskIds(s) == {s[i].id : i \in DOMAIN s}

VARIABLES
    store,        \* db.json: the sequence of records the store holds
    nextId,       \* the id the store gives the next created record
    reqs,         \* bag of requests sent and not yet served
    resps,        \* bag of responses (or network errors) not yet handled
    calls,        \* number of transport calls issued so far
    mounted,      \* the component's mount effect has run
    tasks,        \* TaskList state
    loading,      \* TaskList state
    error,        \* TaskList state: the surfaced error, or NULL
    filter,       \* TaskList state: the filter selector
    searchTerm,   \* TaskList state: the search string
    stats,        \* Stats state
    statsLoading, \* Stats state
    statsError,   \* Stats state
    failed,       \* history: some transport call has failed
    raced,        \* history: the kinds of conflicting calls that were in flight together
    last          \* history: the handler that ran last, with the tasks and
                  \* error it started from and the calls it issued

vars == <<store, nextId, reqs, resps, calls, mounted, tasks, loading, error,
          filter, searchTerm, stats, statsLoading, statsError, failed, raced,
          last>>

storeVars == <<store, nextId>>

listVars == <<mounted, tasks, loading, error>>

viewVars == <<filter, searchTerm>>

statsVars == <<stats, statsLoading, statsError>>

histVars == <<failed, raced, last>>

InFlight == BagToSet(reqs) \cup BagToSet(resps)

\* ------------------------------------------------------------- the store
\* PATCH merges the submitted fields into the stored record.
Merge(rec, patch) ==
    [f \in DOMAIN rec |-> IF f \in DOMAIN patch THEN patch[f] ELSE rec[f]]

Response(q, status, text, json) ==
    [caller |-> q.caller, kind |-> q.kind, id |-> q.id,
     status |-> status, text |-> text, json |-> json]

Reply(q, r) ==
    /\ reqs' = reqs (-) SetToBag({q})
    /\ resps' = resps (+) SetToBag({r})

\* GET /tasks
ServeList(q) ==
    /\ BagIn(q, reqs) /\ q.kind = "list"
    /\ Reply(q, Response(q, "ok", "", store))
    /\ UNCHANGED <<storeVars, calls, listVars, viewVars, statsVars, histVars>>

\* POST /tasks
ServeCreate(q) ==
    /\ BagIn(q, reqs) /\ q.kind = "create"
    /\ LET rec == Task(nextId, q.data.title, q.data.description, q.data.status,
                       q.data.priority, q.data.createdAt)
       IN /\ store' = Append(store, rec)
          /\ nextId' = nextId + 1
          /\ Reply(q, Response(q, "ok", "", <<rec>>))
    /\ UNCHANGED <<calls, listVars, viewVars, statsVars, histVars>>

\* PATCH /tasks/:id
ServePatch(q) ==
    /\ BagIn(q, reqs) /\ q.kind = "update"
    /\ IF q.id \in TaskIds(store)
       THEN LET i == CHOOSE j \in DOMAIN store : store[j].id = q.id
                rec == Merge(store[i], q.data)
            IN /\ store' = [store EXCEPT ![i] = rec]
               /\ Reply(q, Response(q, "ok", "", <<rec>>))
       ELSE /\ store' = store
            /\ Reply(q, Response(q, "non2xx", "{}", << >>))
    /\ UNCHANGED <<nextId, calls, listVars, viewVars, statsVars>>
    /\ failed' = (failed \/ q.id \notin TaskIds(store))
    /\ UNCHANGED <<raced, last>>

\* DELETE /tasks/:id
ServeDelete(q) ==
    /\ BagIn(q, reqs) /\ q.kind = "delete"
    /\ IF q.id \in TaskIds(store)
       THEN /\ store' = SelectSeq(store, LAMBDA t : t.id # q.id)
            /\ Reply(q, Response(q, "ok", "{}", << >>))
       ELSE /\ store' = store
            /\ Reply(q, Response(q, "non2xx", "{}", << >>))
    /\ UNCHANGED <<nextId, calls, listVars, viewVars, statsVars>>
    /\ failed' = (failed \/ q.id \notin TaskIds(store))
    /\ UNCHANGED <<raced, last>>

\* The call does not succeed: the store answers non-2xx with an empty body, or
\* the network drops the request and fetch() rejects.
ServeError(q, status) ==
    /\ BagIn(q, reqs)
    /\ status \in {"non2xx", "neterr"}
    /\ Reply(q, Response(q, status, "", << >>))
    /\ failed' = TRUE
    /\ UNCHANGED <<storeVars, calls, listVars, viewVars, statsVars, raced, last>>

\* ------------------------------------------------------ transport client
Thrown(message) == [threw |-> TRUE, message |-> message, value |-> << >>]

Returned(value) == [threw |-> FALSE, message |-> "", value |-> value]

handleResponse(response) ==
    IF response.status # "ok"
    THEN Thrown(IF response.text # "" THEN response.text ELSE "Request failed")
    ELSE Returned(response.json)

\* fetchTasks, createTask, updateTask: await fetch(...), then handleResponse.
apiJson(response) ==
    IF response.status = "neterr"
    THEN Thrown("Failed to fetch")
    ELSE handleResponse(response)

\* deleteTask: the body of a 2xx answer is ignored.
apiDelete(response) ==
    IF response.status = "neterr"
    THEN Thrown("Failed to fetch")
    ELSE IF response.status # "ok"
         THEN Thrown(IF response.text # "" THEN response.text
                     ELSE "Failed to delete task")
         ELSE Returned(<< >>)

Request(caller, kind, id, data) ==
    [caller |-> caller, kind |-> kind, id |-> id, data |-> data]

Send(q) ==
    /\ reqs' = reqs (+) SetToBag({q})
    /\ calls' = calls + 1
    /\ UNCHANGED resps

Receive(r) ==
    /\ resps' = resps (-) SetToBag({r})
    /\ UNCHANGED <<reqs, calls>>

\* ------------------------------------------------------------ TaskList.js
Event(op, id, ok, body, issued) ==
    [op |-> op, id |-> id, ok |-> ok, body |-> body, issued |-> issued,
     prevTasks |-> tasks, prevError |-> error]

\* Two calls conflict when their responses do not commute on tasks: a refresh
\* with any mutation, and two updates of the same id.
Conflict(q, m, k) ==
    \/ k = "refresh" /\ (q.kind = "list") # (m.kind = "list")
    \/ k = "update" /\ q.kind = "update" /\ m.kind = "update" /\ q.id = m.id

Races(q) ==
    {k \in {"refresh", "update"} :
        \E m \in InFlight : m.caller = "TaskList" /\ Conflict(q, m, k)}

\* new Date().toISOString(): the value of the clock is not modelled.
Now == "now"

\* Mutant: the new record is put last.
PrependAtEnd(newTask, prevTasks) == Append(prevTasks, newTask)

\* setTasks(prevTasks => [newTask, ...prevTasks])
Prepend(newTask, prevTasks) == <<newTask>> \o prevTasks

\* Mutant: every element is replaced once the response arrives.
ReplaceAll(prevTasks, id, updatedTask) ==
    [i \in DOMAIN prevTasks |-> updatedTask]

\* Mutant: the response of an update is dropped.
ReplaceNone(prevTasks, id, updatedTask) == prevTasks

\* Mutant: an update whose record is no longer listed adds it back.
ReplaceOrAdd(prevTasks, id, updatedTask) ==
    IF id \in TaskIds(prevTasks)
    THEN [i \in DOMAIN prevTasks |->
            IF prevTasks[i].id = id THEN updatedTask ELSE prevTasks[i]]
    ELSE Append(prevTasks, updatedTask)

\* prevTasks.map(task => task.id === id ? updatedTask : task)
ReplaceById(prevTasks, id, updatedTask) ==
    [i \in DOMAIN prevTasks |->
        IF prevTasks[i].id = id THEN updatedTask ELSE prevTasks[i]]

\* prevTasks.filter(task => task.id !== id)
RemoveById(prevTasks, id) == SelectSeq(prevTasks, LAMBDA t : t.id # id)

\* tasks.find(t => t.id === id): the index of the first match, 0 if none
FindIndex(s, id) ==
    IF id \in TaskIds(s)
    THEN CHOOSE i \in DOMAIN s :
            /\ s[i].id = id
            /\ \A j \in 1..(i - 1) : s[j].id # id
    ELSE 0

\* Mutant: toggling always completes.
ToggledAlwaysCompleted(task) == "completed"

\* task.status === 'completed' ? 'pending' : 'completed'
ToggledStatus(task) == IF task.status = "completed" THEN "pending" ELSE "completed"

\* Mutant: the catch block logs and forgets to surface the error.
CaughtSilently(message) ==
    /\ error' = error
    /\ tasks' = tasks

\* catch (err) { setError(message); console.error(...); }
Caught(message) ==
    /\ error' = message
    /\ tasks' = tasks

\* useEffect(() => { fetchTasks(); }, []) up to the await
Mount ==
    /\ ~mounted
    /\ mounted' = TRUE
    /\ loading' = TRUE
    /\ error' = NULL
    /\ LET q == Request("TaskList", "list", AbsentId, << >>)
       IN /\ Send(q)
          /\ last' = Event("fetchTasks", AbsentId, TRUE, << >>, {q})
          /\ raced' = raced \cup Races(q)
    /\ UNCHANGED <<storeVars, tasks, viewVars, statsVars, failed>>

\* fetchTasks after the await
FetchTasksResolved(r) ==
    /\ BagIn(r, resps) /\ r.caller = "TaskList" /\ r.kind = "list"
    /\ Receive(r)
    /\ LET res == apiJson(r)
       IN /\ IF res.threw
             THEN Caught(FetchFailed)
             ELSE /\ tasks' = res.value
                  /\ error' = error
          /\ last' = Event("fetchTasksResolved", AbsentId, ~res.threw, res.value, {})
    /\ loading' = FALSE
    /\ UNCHANGED <<storeVars, mounted, viewVars, statsVars, failed, raced>>

\* createTask up to the await
CreateTask(taskData) ==
    /\ mounted /\ calls <= MaxCalls
    /\ error' = NULL
    /\ LET payload == [title |-> taskData.title,
                       description |-> taskData.description,
                       status |-> taskData.status,
                       priority |-> taskData.priority,
                       createdAt |-> Now]
           q == Request("TaskList", "create", AbsentId, payload)
       IN /\ Send(q)
          /\ last' = Event("createTask", AbsentId, TRUE, << >>, {q})
          /\ raced' = raced \cup Races(q)
    /\ UNCHANGED <<storeVars, mounted, tasks, loading, viewVars, statsVars, failed>>

\* createTask after the await
CreateTaskResolved(r) ==
    /\ BagIn(r, resps) /\ r.caller = "TaskList" /\ r.kind = "create"
    /\ Receive(r)
    /\ LET res == apiJson(r)
       IN /\ IF res.threw
             THEN Caught(CreateFailed)
             ELSE /\ tasks' = Prepend(res.value[1], tasks)
                  /\ error' = error
          /\ last' = Event("createTaskResolved", AbsentId, ~res.threw, res.value, {})
    /\ UNCHANGED <<storeVars, mounted, loading, viewVars, statsVars, failed, raced>>

\* updateTask up to the await
UpdateTask(id, updatedData) ==
    /\ mounted /\ calls <= MaxCalls
    /\ error' = NULL
    /\ LET q == Request("TaskList", "update", id, updatedData)
       IN /\ Send(q)
          /\ last' = Event("updateTask", id, TRUE, << >>, {q})
          /\ raced' = raced \cup Races(q)
    /\ UNCHANGED <<storeVars, mounted, tasks, loading, viewVars, statsVars, failed>>

\* updateTask after the await
UpdateTaskResolved(r) ==
    /\ BagIn(r, resps) /\ r.caller = "TaskList" /\ r.kind = "update"
    /\ Receive(r)
    /\ LET res == apiJson(r)
       IN /\ IF res.threw
             THEN Caught(UpdateFailed)
             ELSE /\ tasks' = ReplaceById(tasks, r.id, res.value[1])
                  /\ error' = error
          /\ last' = Event("updateTaskResolved", r.id, ~res.threw, res.value, {})
    /\ UNCHANGED <<storeVars, mounted, loading, viewVars, statsVars, failed, raced>>

\* deleteTask up to the await, or to its end when window.confirm returns false
DeleteTask(id, confirmed) ==
    /\ mounted
    /\ error' = NULL
    /\ IF confirmed
       THEN /\ calls <= MaxCalls
            /\ LET q == Request("TaskList", "delete", id, << >>)
               IN /\ Send(q)
                  /\ last' = Event("deleteTask", id, TRUE, << >>, {q})
                  /\ raced' = raced \cup Races(q)
       ELSE /\ UNCHANGED <<reqs, resps, calls, raced>>
            /\ last' = Event("deleteTask", id, FALSE, << >>, {})
    /\ UNCHANGED <<storeVars, mounted, tasks, loading, viewVars, statsVars, failed>>

\* deleteTask after the await
DeleteTaskResolved(r) ==
    /\ BagIn(r, resps) /\ r.caller = "TaskList" /\ r.kind = "delete"
    /\ Receive(r)
    /\ LET res == apiDelete(r)
       IN /\ IF res.threw
             THEN Caught(DeleteFailed)
             ELSE /\ tasks' = RemoveById(tasks, r.id)
                  /\ error' = error
          /\ last' = Event("deleteTaskResolved", r.id, ~res.threw, << >>, {})
    /\ UNCHANGED <<storeVars, mounted, loading, viewVars, statsVars, failed, raced>>

\* toggleTaskStatus: updateTask up to its await when the id is found
ToggleTaskStatus(id) ==
    /\ mounted
    /\ LET i == FindIndex(tasks, id)
       IN IF i # 0
          THEN /\ calls <= MaxCalls
               /\ error' = NULL
               /\ LET q == Request("TaskList", "update", id,
                                   [status |-> ToggledStatus(tasks[i])])
                  IN /\ Send(q)
                     /\ last' = Event("toggleTaskStatus", id, TRUE, << >>, {q})
                     /\ raced' = raced \cup Races(q)
          ELSE /\ UNCHANGED <<reqs, resps, calls, error, raced>>
               /\ last' = Event("toggleTaskStatus", id, FALSE, << >>, {})
    /\ UNCHANGED <<storeVars, mounted, tasks, loading, viewVars, statsVars, failed>>

\* <Alert dismissible onClose={() => setError(null)}>
DismissError ==
    /\ mounted
    /\ error # NULL
    /\ error' = NULL
    /\ last' = Event("dismissError", AbsentId, TRUE, << >>, {})
    /\ UNCHANGED <<storeVars, reqs, resps, calls, mounted, tasks, loading,
                   viewVars, statsVars, failed, raced>>

\* ------------------------------------------------- TaskList.js: the view
\* String.prototype.toLowerCase over the letters the model uses
LowerChar(c) == IF c = "A" THEN "a" ELSE IF c = "B" THEN "b" ELSE c

\* Mutant: the comparison keeps the case.
toLowerCaseKept(s) == s

toLowerCase(s) == [i \in DOMAIN s |-> LowerChar(s[i])]

\* String.prototype.includes
includes(s, sub) ==
    \E k \in 0..(Len(s) - Len(sub)) : SubSeq(s, k + 1, k + Len(sub)) = sub

matchesFilter(task) ==
    filter = "all" \/ task.status = filter \/ task.priority = filter

matchesSearch(task) ==
    \/ includes(toLowerCase(task.title), toLowerCase(searchTerm))
    \/ includes(toLowerCase(task.description), toLowerCase(searchTerm))

\* const filteredTasks = tasks.filter(...), recomputed on every render
filteredTasks ==
    SelectSeq(tasks, LAMBDA task : matchesFilter(task) /\ matchesSearch(task))

\* <FilterBar setFilter={setFilter} .../>
SetFilter(f) ==
    /\ filter' = f
    /\ UNCHANGED <<storeVars, reqs, resps, calls, listVars, searchTerm, statsVars,
                   histVars>>

\* <FilterBar setSearchTerm={setSearchTerm} .../>
SetSearchTerm(t) ==
    /\ searchTerm' = t
    /\ UNCHANGED <<storeVars, reqs, resps, calls, listVars, filter, statsVars,
                   histVars>>

\* ------------------------------------------------------------ Stats
\* Mutant: Math.floor in place of Math.round.
MathFloor(num, den) == num \div den

\* Math.round(num / den) for num >= 0, den > 0: the nearest integer, a half
\* going up.  (completed / total) * 100 is computed in doubles; for the totals
\* the model reaches the double result rounds as the exact quotient does.
MathRound(num, den) == (2 * num + den) \div (2 * den)

completionRate(completed, total) ==
    IF total > 0 THEN MathRound(completed * 100, total) ELSE 0

\* tasks.filter(task => task.status === 'completed').length
CountCompleted(list) == Len(SelectSeq(list, LAMBDA task : task.status = "completed"))

ComputeStats(list) ==
    LET total == Len(list)
        completed == CountCompleted(list)
        pending == total - completed
    IN [total |-> total, completed |-> completed, pending |-> pending,
        completionRate |-> completionRate(completed, total)]

\* useEffect(() => { fetchStats(); }, []) up to the await
StatsMount ==
    /\ statsLoading /\ calls = 0
    /\ statsError' = NULL
    /\ LET q == Request("Stats", "list", AbsentId, << >>)
       IN /\ Send(q)
          /\ last' = Event("fetchStats", AbsentId, TRUE, << >>, {q})
    /\ UNCHANGED <<storeVars, listVars, viewVars, stats, statsLoading, failed, raced>>

\* fetchStats after the await
StatsResolved(r) ==
    /\ BagIn(r, resps) /\ r.caller = "Stats" /\ r.kind = "list"
    /\ Receive(r)
    /\ LET res == apiJson(r)
       IN /\ IF res.threw
             THEN /\ statsError' = StatsFailed
                  /\ stats' = stats
             ELSE /\ stats' = ComputeStats(res.value)
                  /\ statsError' = statsError
          /\ last' = Event("fetchStatsResolved", AbsentId, ~res.threw, res.value, {})
    /\ statsLoading' = FALSE
    /\ UNCHANGED <<storeVars, listVars, viewVars, failed, raced>>

\* --------------------------------------------------------- specification
\* db.json as shipped: records numbered from 1, alternately pending and completed.
SampleData(n) ==
    [i \in 1..n |-> Task(i, DefaultTitle, EmptyStr,
                         IF i % 2 = 1 THEN "pending" ELSE "completed", "low", "then")]

NoEvent ==
    [op |-> "none", id |-> AbsentId, ok |-> TRUE, body |-> << >>, issued |-> {},
     prevTasks |-> << >>, prevError |-> NULL]

InitClient ==
    /\ reqs = EmptyBag /\ resps = EmptyBag /\ calls = 0
    /\ mounted = FALSE
    /\ tasks = << >> /\ loading = TRUE /\ error = NULL
    /\ filter = "all" /\ searchTerm = EmptyStr
    /\ stats = [total |-> 0, completed |-> 0, pending |-> 0, completionRate |-> 0]
    /\ statsLoading = TRUE /\ statsError = NULL
    /\ failed = FALSE /\ raced = {}
    /\ last = NoEvent

Init ==
    /\ \E n \in 0..MaxInit : store = SampleData(n) /\ nextId = n + 1
    /\ InitClient

\* What the Add form submits: a task that is still pending.
FormData == {[title |-> DefaultTitle, description |-> EmptyStr,
              status |-> "pending", priority |-> "low"]}

Patches == {[status |-> s] : s \in Statuses}

\* The ids a handler can be called with: those of the cards on screen, and
\* one that no record has (a handler kept from an earlier render).
IdChoices == TaskIds(tasks) \cup {AbsentId}

Next ==
    \/ Mount
    \/ \E taskData \in FormData : CreateTask(taskData)
    \/ \E id \in IdChoices, p \in Patches : UpdateTask(id, p)
    \/ \E id \in IdChoices, c \in BOOLEAN : DeleteTask(id, c)
    \/ \E id \in IdChoices : ToggleTaskStatus(id)
    \/ DismissError
    \/ \E q \in BagToSet(reqs) : ServeList(q)
    \/ \E q \in BagToSet(reqs) : ServeCreate(q)
    \/ \E q \in BagToSet(reqs) : ServePatch(q)
    \/ \E q \in BagToSet(reqs) : ServeDelete(q)
    \/ \E q \in BagToSet(reqs), st \in {"non2xx", "neterr"} : ServeError(q, st)
    \/ \E r \in BagToSet(resps) : FetchTasksResolved(r)
    \/ \E r \in BagToSet(resps) : CreateTaskResolved(r)
    \/ \E r \in BagToSet(resps) : UpdateTaskResolved(r)
    \/ \E r \in BagToSet(resps) : DeleteTaskResolved(r)

Spec == Init /\ [][Next]_vars

\* ------------------------------------------- the Stats component on its own
StatusLists ==
    UNION {[1..n -> Statuses] : n \in 0..MaxStatsTasks}

InitStats ==
    /\ \E sl \in StatusLists :
          /\ store = [i \in DOMAIN sl |->
                        Task(i, DefaultTitle, EmptyStr, sl[i], "low", "then")]
          /\ nextId = Len(sl) + 1
    /\ InitClient

NextStats ==
    \/ StatsMount
    \/ \E q \in BagToSet(reqs) : ServeList(q)
    \/ \E q \in BagToSet(reqs), st \in {"non2xx", "neterr"} : ServeError(q, st)
    \/ \E r \in BagToSet(resps) : StatsResolved(r)

SpecStats == InitStats /\ [][NextStats]_vars

\* ------------------------------------------------ the derived view on its own
Titles == {<<"A", "b">>, <<"b">>}

Descriptions == {EmptyStr, <<"a", "B">>}

SearchTerms == {EmptyStr, <<"a">>, <<"B">>, <<"a", "b">>, <<"b", "a">>}

Filters == {"all"} \cup Statuses \cup Priorities

ViewFields == [title : Titles, description : Descriptions, status : Statuses,
               priority : Priorities]

ViewTaskLists ==
    UNION {[1..n -> ViewFields] : n \in 0..MaxViewTasks}

InitView ==
    /\ store = << >> /\ nextId = 1
    /\ reqs = EmptyBag /\ resps = EmptyBag /\ calls = 1
    /\ mounted = TRUE /\ loading = FALSE /\ error = NULL
    /\ \E l \in ViewTaskLists :
          tasks = [i \in DOMAIN l |->
                     Task(i, l[i].title, l[i].description, l[i].status,
                          l[i].priority, "then")]
    /\ filter = "all" /\ searchTerm = EmptyStr
    /\ stats = [total |-> 0, completed |-> 0, pending |-> 0, completionRate |-> 0]
    /\ statsLoading = TRUE /\ statsError = NULL
    /\ failed = FALSE /\ raced = {}
    /\ last = NoEvent

NextView ==
    \/ \E f \in Filters : SetFilter(f)
    \/ \E t \in SearchTerms : SetSearchTerm(t)

SpecView == InitView /\ [][NextView]_vars

\* ================================================================ claims
Quiescent == reqs = EmptyBag /\ resps = EmptyBag

ResolvedOps == {"fetchTasksResolved", "createTaskResolved", "updateTaskResolved",
                "deleteTaskResolved"}

\* C1: no two elements of tasks have the same id, in every reachable state
\* of the controller.
C1_UniqueIds ==
    \A i, j \in DOMAIN tasks : i # j => tasks[i].id # tasks[j].id

\* C2: when the transport call of refresh, create, update or delete fails,
\* the handler leaves tasks as it found it (same records, same order) and
\* leaves a non-null surfaced error.
C2_FailureKeepsTasks ==
    (last.op \in ResolvedOps /\ ~last.ok) =>
        /\ tasks = last.prevTasks
        /\ error # NULL

C2_Witness ==
    /\ last.op = "createTaskResolved" /\ ~last.ok
    /\ Len(tasks) >= 1
    /\ last.prevError = NULL

\* C3: create is pessimistic.  Issuing the create call leaves tasks as it
\* was; handling its success response puts the server-returned record, with
\* the id the store gave it, at index 0, followed by all the elements tasks
\* had at that moment in their order, so that the length grows by one.
C3_CreatePrepends ==
    /\ last.op = "createTask" => tasks = last.prevTasks
    /\ (last.op = "createTaskResolved" /\ last.ok) =>
          /\ Len(tasks) = Len(last.prevTasks) + 1
          /\ tasks[1] = last.body[1]
          /\ tasks[1].id \in 1..(nextId - 1)
          /\ \A i \in DOMAIN last.prevTasks : tasks[i + 1] = last.prevTasks[i]

C3_Witness ==
    /\ last.op = "createTaskResolved" /\ last.ok
    /\ Len(last.prevTasks) >= 1
    /\ tasks[1].id \notin TaskIds(last.prevTasks)

\* C4: handling the success response of update(id, patch) replaces the
\* element of tasks whose id is id by the server-returned record and leaves
\* every other element as it was, at its index; the length does not change,
\* and tasks is unchanged if no element has that id.
C4_UpdateReplacesOne ==
    (last.op = "updateTaskResolved" /\ last.ok) =>
        /\ Len(tasks) = Len(last.prevTasks)
        /\ \A i \in DOMAIN last.prevTasks :
              tasks[i] = IF last.prevTasks[i].id = last.id
                         THEN last.body[1]
                         ELSE last.prevTasks[i]
        /\ last.id \notin TaskIds(last.prevTasks) => tasks = last.prevTasks

C4_Witness ==
    /\ last.op = "updateTaskResolved" /\ last.ok
    /\ Len(tasks) >= 2
    /\ last.id \in TaskIds(last.prevTasks)
    /\ tasks # last.prevTasks

\* C5: when the user declines the delete confirmation, no transport call is
\* issued and tasks and the surfaced error are after the operation what they
\* were before it.
C5_DeclineChangesNothing ==
    (last.op = "deleteTask" /\ ~last.ok) =>
        /\ last.issued = {}
        /\ tasks = last.prevTasks
        /\ error = last.prevError

\* C6: the later-resolving response wins the write to tasks: once the success
\* response of an update of some id has been handled, every element of tasks
\* with that id is the record that response carried, whatever the order in
\* which the store served the concurrent updates of that id.
C6_LastResponseWins ==
    (last.op = "updateTaskResolved" /\ last.ok) =>
        \A i \in DOMAIN tasks : tasks[i].id = last.id => tasks[i] = last.body[1]

\* Two updates of one id were in flight together, both succeeded and both
\* responses are handled; tasks shows the record of the response handled
\* last, which is not the record the store served last.
C6_Witness ==
    /\ last.op = "updateTaskResolved" /\ last.ok
    /\ "update" \in raced /\ ~failed /\ Quiescent
    /\ \E i \in DOMAIN tasks, j \in DOMAIN store :
          /\ tasks[i].id = last.id /\ store[j].id = last.id
          /\ tasks[i] = last.body[1]
          /\ tasks[i] # store[j]

\* C7: toggle on an id listed in tasks issues exactly one update call for
\* that id, whose patch sets status to pending if the listed record is
\* completed and to completed otherwise; toggle on an id that is not listed
\* issues no call, changes no state and surfaces no error.  The listed
\* record is the one the lookup finds: the first element with that id.
C7_Toggle ==
    last.op = "toggleTaskStatus" =>
        IF last.id \in TaskIds(last.prevTasks)
        THEN /\ Cardinality(last.issued) = 1
             /\ tasks = last.prevTasks
             /\ \A q \in last.issued :
                   /\ q.kind = "update" /\ q.id = last.id
                   /\ DOMAIN q.data = {"status"}
                   /\ \A i \in DOMAIN last.prevTasks :
                         (/\ last.prevTasks[i].id = last.id
                          /\ \A j \in 1..(i - 1) : last.prevTasks[j].id # last.id) =>
                            q.data.status =
                               IF last.prevTasks[i].status = "completed"
                               THEN "pending" ELSE "completed"
        ELSE /\ last.issued = {}
             /\ tasks = last.prevTasks
             /\ error = last.prevError

C7_Witness ==
    /\ last.op = "toggleTaskStatus"
    /\ last.id \in TaskIds(last.prevTasks)
    /\ \E q \in last.issued : q.data.status = "pending"

SameLetter(a, b) ==
    a = b \/ {a, b} = {"a", "A"} \/ {a, b} = {"b", "B"}

ContainsIgnoringCase(s, sub) ==
    \E k \in 0..(Len(s) - Len(sub)) :
        \A j \in 1..Len(sub) : SameLetter(s[k + j], sub[j])

Kept ==
    {i \in DOMAIN tasks :
        /\ filter = "all" \/ tasks[i].status = filter \/ tasks[i].priority = filter
        /\ \/ ContainsIgnoringCase(tasks[i].title, searchTerm)
           \/ ContainsIgnoringCase(tasks[i].description, searchTerm)}

C9_FilteredView ==
    /\ Len(filteredTasks) = Cardinality(Kept)
    /\ \A k \in DOMAIN filteredTasks :
          \E i \in Kept :
             /\ filteredTasks[k] = tasks[i]
             /\ Cardinality({j \in Kept : j < i}) = k - 1
    /\ (filter = "all" /\ searchTerm = EmptyStr) => filteredTasks = tasks
    /\ filter # "all" =>
          \A k \in DOMAIN filteredTasks :
             filteredTasks[k].status = filter \/ filteredTasks[k].priority = filter

\* A search that matches only through the case folding, under a priority
\* filter, keeps the second of two records and drops the first.
C9_Witness ==
    /\ filter = "high" /\ searchTerm = <<"B">>
    /\ Len(tasks) = 2
    /\ tasks[1].priority = "low"
    /\ tasks[2].title = <<"b">> /\ tasks[2].description = EmptyStr
    /\ filteredTasks = <<tasks[2]>>

\* C10: whenever no request is in flight and every request issued so far has
\* succeeded, tasks holds exactly the records the store holds.
C10_Converges ==
    (mounted /\ Quiescent /\ ~failed) => Range(tasks) = Range(store)

\* C10 as amended: the same, provided no mutation was issued while the
\* refresh was in flight and no update while another update of the same id
\* was in flight; and the response of an update never adds a record to tasks.
C10_ConvergesWithoutRace ==
    /\ (mounted /\ Quiescent /\ ~failed /\ raced = {}) =>
          Range(tasks) = Range(store)
    /\ last.op = "updateTaskResolved" =>
          TaskIds(tasks) \subseteq TaskIds(last.prevTasks)

\* The refresh, a create and a delete have all succeeded, one after the other,
\* and a second record is still listed.
C10_Witness ==
    /\ mounted /\ Quiescent /\ ~failed /\ raced = {}
    /\ last.op = "deleteTaskResolved" /\ last.ok
    /\ Len(last.prevTasks) = 2 /\ Len(tasks) = 1
    /\ nextId > Len(store) + 1

====
